---- MODULE Spec2Model ----
(***************************************************************************)
(* The streak engine of the habit tracker (src/habit_tracker/analytics.py: *)
(* calculate_streak, get_streak_details and the two wrappers) and the      *)
(* records it reads (src/habit_tracker/models.py).                         *)
(*                                                                         *)
(* A date is its proleptic Gregorian ordinal, as datetime.date.toordinal() *)
(* numbers it (0001-01-01 is day 1, a Monday).  completed_at is held at    *)
(* day resolution: analytics.py reads it only through .date(),             *)
(* .isocalendar(), .year and .month, none of which reads the time of day.  *)
(* datetime.now() is the variable now: the clock is an input of a call.    *)
(***************************************************************************)
EXTENDS Integers, Sequences, FiniteSets, TLC

VARIABLES
    completions,    \* the list of HabitCompletion records handed to the call
    periodicity,    \* the periodicity handed to the call
    now,            \* datetime.now().date() during the call
    pc,             \* how far the caller has got: "start", "streak", "done"
    streak,         \* what calculate_streak returned
    details,        \* what get_streak_details returned: <<length, start, end>>
    errors,         \* the calls that raised ValueError instead of returning
    habits,         \* the list of Habit records handed to the call
    habit,          \* the Habit handed to longest_ongoing_streak_for_habit
    overall,        \* what longest_ongoing_streak_overall returned
    db,             \* the database file: its two tables and sqlite_sequence
    call            \* the last HabitRepository call, and db as it found it

vars == <<completions, periodicity, now, pc, streak, details, errors,
          habits, habit, overall, db, call>>

----------------------------------------------------------------------------
(* models.py *)

Periodicity == {"DAILY", "WEEKLY", "MONTHLY"}

\* A value that is no member of the Periodicity enumeration.
OtherPeriodicity == "YEARLY"

\* Python's None, for the Optional dates of get_streak_details; no date has
\* ordinal 0.
None == 0

\* A Habit, by the two fields analytics.py reads: id and periodicity.
Habit(id, p) == [id |-> id, periodicity |-> p]

HabitCompletion(habit_id, completed_at) ==
    [habit_id |-> habit_id, completed_at |-> completed_at]

----------------------------------------------------------------------------
(* The calendar of datetime.date, as the standard library computes it. *)

DAYS_BEFORE_MONTH == <<0, 31, 59, 90, 120, 151, 181, 212, 243, 273, 304, 334>>

DAYS_IN_MONTH == <<31, 28, 31, 30, 31, 30, 31, 31, 30, 31, 30, 31>>

is_leap(year) == year % 4 = 0 /\ (year % 100 # 0 \/ year % 400 = 0)

days_before_year(year) ==
    LET y == year - 1
    IN  y * 365 + (y \div 4) - (y \div 100) + (y \div 400)

days_before_month(year, month) ==
    DAYS_BEFORE_MONTH[month] + (IF month > 2 /\ is_leap(year) THEN 1 ELSE 0)

\* date(year, month, day).toordinal()
ymd2ord(year, month, day) ==
    days_before_year(year) + days_before_month(year, month) + day

\* date.fromordinal(ordinal), as [year, month, day]
ord2ymd(ordinal) ==
    LET n0   == ordinal - 1
        n400 == n0 \div 146097
        r400 == n0 % 146097
        n100 == r400 \div 36524
        r100 == r400 % 36524
        n4   == r100 \div 1461
        r4   == r100 % 1461
        n1   == r4 \div 365
        n    == r4 % 365
        year == n400 * 400 + 1 + n100 * 100 + n4 * 4 + n1
    IN  IF n1 = 4 \/ n100 = 4
        THEN [year |-> year - 1, month |-> 12, day |-> 31]
        ELSE
            LET leapyear == n1 = 3 /\ (n4 # 24 \/ n100 = 3)
                leap(m)  == IF m > 2 /\ leapyear THEN 1 ELSE 0
                month0   == (n + 50) \div 32
                before0  == DAYS_BEFORE_MONTH[month0] + leap(month0)
                month    == IF before0 > n THEN month0 - 1 ELSE month0
                before   == IF before0 > n
                            THEN before0 - (DAYS_IN_MONTH[month]
                                    + (IF month = 2 /\ leapyear THEN 1 ELSE 0))
                            ELSE before0
            IN  [year |-> year, month |-> month, day |-> n - before + 1]

\* date.year and date.month
year_of(d) == ord2ymd(d).year

month_of(d) == ord2ymd(d).month

\* date.replace(day=1)
replace_day_1(d) == ymd2ord(year_of(d), month_of(d), 1)

\* date.weekday(): Monday is 0
weekday(d) == (d + 6) % 7

\* The ordinal of the Monday that starts ISO week 1 of a year: the week that
\* holds the year's first Thursday.
isoweek1monday(year) ==
    LET firstday     == ymd2ord(year, 1, 1)
        firstweekday == (firstday + 6) % 7
        week1monday  == firstday - firstweekday
    IN  IF firstweekday > 3 THEN week1monday + 7 ELSE week1monday

\* A week numbering that is not ISO 8601: the calendar year and the number
\* of the seven-day block of the year the day falls in.
isocalendar_day_of_year(d) ==
    <<year_of(d), ((d - ymd2ord(year_of(d), 1, 1)) \div 7) + 1>>

\* date.isocalendar() without the weekday: <<ISO year, ISO week>>
isocalendar(d) ==
    LET year == year_of(d)
        week == (d - isoweek1monday(year)) \div 7
    IN  IF week < 0
        THEN <<year - 1, ((d - isoweek1monday(year - 1)) \div 7) + 1>>
        ELSE IF week >= 52 /\ d >= isoweek1monday(year + 1)
             THEN <<year + 1, 1>>
             ELSE <<year, week + 1>>

----------------------------------------------------------------------------
(* analytics.py: calculate_streak *)

Range(s) == {s[i] : i \in 1..Len(s)}

\* {c.completed_at.date() for c in completions}
completed_dates(cs) == {c.completed_at : c \in Range(cs)}

\* the set of (year, week) tuples of the completions
completed_weeks(cs) == {isocalendar(c.completed_at) : c \in Range(cs)}

\* {(c.completed_at.year, c.completed_at.month) for c in completions}
completed_months(cs) ==
    {<<year_of(c.completed_at), month_of(c.completed_at)>> : c \in Range(cs)}

\* check_date -= timedelta(days=1)
prev_day(check_date) == check_date - 1

\* check_date -= timedelta(weeks=1)
prev_week(check_date) == check_date - 7

\* check_date = check_date.replace(day=1) - timedelta(days=1)
prev_month(check_date) == replace_day_1(check_date) - 1

\* (check_date.year, check_date.month)
current_pair(check_date) == <<year_of(check_date), month_of(check_date)>>

\* The period key calculate_streak derives from a date: the date, its ISO
\* (year, week) or its (year, month).
period_of(d, p) ==
    IF p = "DAILY" THEN d
    ELSE IF p = "WEEKLY" THEN isocalendar(d)
    ELSE current_pair(d)

\* The period key the backward walk of calculate_streak reaches in one step
\* from a date.
predecessor(d, p) ==
    IF p = "DAILY" THEN prev_day(d)
    ELSE IF p = "WEEKLY" THEN isocalendar(prev_week(d))
    ELSE current_pair(prev_month(d))

\* A start without the grace period: a day not yet completed breaks the
\* streak.
daily_start_no_grace(dates, today) ==
    IF today \notin dates THEN None ELSE today

\* A start that tolerates two days not completed: it falls back to the day
\* before yesterday as well.
daily_start_two_graces(dates, today) ==
    IF today \in dates THEN today
    ELSE IF prev_day(today) \in dates THEN prev_day(today)
    ELSE IF prev_day(prev_day(today)) \in dates THEN prev_day(prev_day(today))
    ELSE None

\* The date the count starts from, or None where the code returns 0: today
\* when today is completed, else yesterday when yesterday is.
daily_start(dates, today) ==
    IF today \notin dates
    THEN IF prev_day(today) \notin dates THEN None ELSE prev_day(today)
    ELSE today

weekly_start(weeks, today) ==
    IF isocalendar(today) \notin weeks
    THEN IF isocalendar(prev_week(today)) \notin weeks
         THEN None
         ELSE prev_week(today)
    ELSE today

monthly_start(months, today) ==
    IF current_pair(today) \notin months
    THEN IF current_pair(prev_month(today)) \notin months
         THEN None
         ELSE prev_month(today)
    ELSE today

\* while check_date in completed_dates: streak += 1; step back one day
RECURSIVE daily_walk(_, _)
daily_walk(check_date, dates) ==
    IF check_date \in dates
    THEN 1 + daily_walk(prev_day(check_date), dates)
    ELSE 0

\* A walk that decrements the week number of the (year, week) tuple instead
\* of stepping the date back: week 1 is followed by "week 0" of the same
\* year.
RECURSIVE week_number_walk(_, _)
week_number_walk(key, weeks) ==
    IF key \in weeks
    THEN 1 + week_number_walk(<<key[1], key[2] - 1>>, weeks)
    ELSE 0

weekly_walk_by_week_number(check_date, weeks) ==
    week_number_walk(isocalendar(check_date), weeks)

RECURSIVE weekly_walk(_, _)
weekly_walk(check_date, weeks) ==
    IF isocalendar(check_date) \in weeks
    THEN 1 + weekly_walk(prev_week(check_date), weeks)
    ELSE 0

RECURSIVE monthly_walk(_, _)
monthly_walk(check_date, months) ==
    IF current_pair(check_date) \in months
    THEN 1 + monthly_walk(prev_month(check_date), months)
    ELSE 0

Returned(value) == [raised |-> FALSE, value |-> value]

Raised == [raised |-> TRUE, value |-> 0]

\* calculate_streak(completions, periodicity) with datetime.now() = today.
calculate_streak(cs, p, today) ==
    IF cs = <<>> THEN Returned(0)
    ELSE IF p = "DAILY" THEN
        LET start == daily_start(completed_dates(cs), today)
        IN  IF start = None THEN Returned(0)
            ELSE Returned(daily_walk(start, completed_dates(cs)))
    ELSE IF p = "WEEKLY" THEN
        LET start == weekly_start(completed_weeks(cs), today)
        IN  IF start = None THEN Returned(0)
            ELSE Returned(weekly_walk(start, completed_weeks(cs)))
    ELSE IF p = "MONTHLY" THEN
        LET start == monthly_start(completed_months(cs), today)
        IN  IF start = None THEN Returned(0)
            ELSE Returned(monthly_walk(start, completed_months(cs)))
    ELSE Raised

----------------------------------------------------------------------------
(* analytics.py: get_streak_details *)

\* sorted(S): the elements of a set of dates, ascending
RECURSIVE sorted(_)
sorted(S) ==
    IF S = {} THEN <<>>
    ELSE LET m == CHOOSE x \in S : \A y \in S : x <= y
         IN  <<m>> \o sorted(S \ {m})

\* sorted(list({c.completed_at.date() for c in sorted_completions}))
sorted_dates(cs) == sorted(completed_dates(cs))

\* A continuity check that compares the (year, week) tuples y1, w1, y2, w2
\* of the scan instead of the Monday-aligned week starts.
is_consecutive_by_week_number(prev_date, date_obj, p) ==
    IF p = "DAILY" THEN date_obj - prev_date = 1
    ELSE IF p = "WEEKLY" THEN
        /\ isocalendar(date_obj)[1] = isocalendar(prev_date)[1]
        /\ isocalendar(date_obj)[2] - isocalendar(prev_date)[2] = 1
    ELSE IF p = "MONTHLY" THEN
        (year_of(date_obj) * 12 + month_of(date_obj))
            - (year_of(prev_date) * 12 + month_of(prev_date)) = 1
    ELSE FALSE

\* The continuity check of the scan; is_consecutive starts False and no
\* branch sets it for a periodicity outside the enumeration.
is_consecutive(prev_date, date_obj, p) ==
    IF p = "DAILY" THEN date_obj - prev_date = 1
    ELSE IF p = "WEEKLY" THEN
        LET monday1 == date_obj - weekday(date_obj)
            monday2 == prev_date - weekday(prev_date)
        IN  monday1 - monday2 = 7
    ELSE IF p = "MONTHLY" THEN
        (year_of(date_obj) * 12 + month_of(date_obj))
            - (year_of(prev_date) * 12 + month_of(prev_date)) = 1
    ELSE FALSE

\* The locals of the scan before the loop.
scan_init ==
    [max_streak |-> 0, current_streak |-> 0, current_start |-> None,
     max_start |-> None, max_end |-> None]

\* Whether a closed streak replaces the best so far.
beats(current_streak, max_streak) == current_streak > max_streak

\* An iteration that closes a run at the date that broke it, not at the
\* date before.
scan_step_end_at_break(st, i, dates, p) ==
    IF i = 1
    THEN [max_streak |-> 1, current_streak |-> 1, current_start |-> dates[1],
          max_start |-> dates[1], max_end |-> dates[1]]
    ELSE IF is_consecutive(dates[i - 1], dates[i], p)
    THEN [st EXCEPT !.current_streak = @ + 1]
    ELSE
        LET closed == IF beats(st.current_streak, st.max_streak)
                      THEN [st EXCEPT !.max_streak = st.current_streak,
                                      !.max_start = st.current_start,
                                      !.max_end = dates[i]]
                      ELSE st
        IN  [closed EXCEPT !.current_streak = 1, !.current_start = dates[i]]

\* One iteration of the loop, at (1-based) position i of the sorted dates.
scan_step(st, i, dates, p) ==
    IF i = 1
    THEN [max_streak |-> 1, current_streak |-> 1, current_start |-> dates[1],
          max_start |-> dates[1], max_end |-> dates[1]]
    ELSE IF is_consecutive(dates[i - 1], dates[i], p)
    THEN [st EXCEPT !.current_streak = @ + 1]
    ELSE
        LET closed == IF beats(st.current_streak, st.max_streak)
                      THEN [st EXCEPT !.max_streak = st.current_streak,
                                      !.max_start = st.current_start,
                                      !.max_end = dates[i - 1]]
                      ELSE st
        IN  [closed EXCEPT !.current_streak = 1, !.current_start = dates[i]]

\* The locals after the first i iterations.
RECURSIVE scan(_, _, _)
scan(i, dates, p) ==
    IF i = 0 THEN scan_init ELSE scan_step(scan(i - 1, dates, p), i, dates, p)

\* get_streak_details(completions, periodicity): <<length, start, end>>
get_streak_details(cs, p) ==
    IF cs = <<>> THEN <<0, None, None>>
    ELSE
        LET dates == sorted_dates(cs)
            st    == scan(Len(dates), dates, p)
        IN  IF dates = <<>> THEN <<0, None, None>>
            ELSE IF beats(st.current_streak, st.max_streak)
            THEN <<st.current_streak, st.current_start, dates[Len(dates)]>>
            ELSE <<st.max_streak, st.max_start, st.max_end>>

----------------------------------------------------------------------------
(* analytics.py: the wrappers *)

\* longest_ongoing_streak_for_habit(habit, completions)
longest_ongoing_streak_for_habit(h, cs, today) ==
    calculate_streak(cs, h.periodicity, today)

\* [c for c in all_completions if c.habit_id == habit.id]
habit_completions(all_completions, h) ==
    SelectSeq(all_completions, LAMBDA c : c.habit_id = h.id)

\* A loop that hands every habit the whole list, without the filter on
\* habit_id.
RECURSIVE overall_loop_unfiltered(_, _, _, _)
overall_loop_unfiltered(i, hs, all_completions, today) ==
    IF i = 0 THEN Returned(0)
    ELSE
        LET sofar == overall_loop_unfiltered(i - 1, hs, all_completions, today)
            r     == calculate_streak(all_completions, hs[i].periodicity, today)
        IN  IF sofar.raised \/ r.raised THEN Raised
            ELSE IF r.value > sofar.value THEN Returned(r.value)
            ELSE sofar

\* max_streak after the first i habits of the loop, or Raised once a call of
\* calculate_streak has raised.
RECURSIVE overall_loop(_, _, _, _)
overall_loop(i, hs, all_completions, today) ==
    IF i = 0 THEN Returned(0)
    ELSE
        LET sofar == overall_loop(i - 1, hs, all_completions, today)
            r     == calculate_streak(habit_completions(all_completions, hs[i]),
                                      hs[i].periodicity, today)
        IN  IF sofar.raised \/ r.raised THEN Raised
            ELSE IF r.value > sofar.value THEN Returned(r.value)
            ELSE sofar

\* longest_ongoing_streak_overall(habits, all_completions)
longest_ongoing_streak_overall(hs, all_completions, today) ==
    overall_loop(Len(hs), hs, all_completions, today)

----------------------------------------------------------------------------
(* db.py: HabitRepository over SQLite. The database is modelled by the     *)
(* rows of its two tables and by sqlite_sequence, the table in which       *)
(* SQLite keeps the largest id an AUTOINCREMENT column has handed out.     *)
(* created_at is left out of a habit's row: nothing reads it here.         *)

\* create_tables on a new file: both tables empty, no id handed out.
EmptyDb ==
    [habits            |-> {},
     habit_completions |-> {},
     sqlite_sequence   |-> [habits |-> 0, habit_completions |-> 0]]

\* A connection that never runs the pragma: SQLite's default.
foreign_keys_off == FALSE

\* get_connection: PRAGMA foreign_keys = ON on every connection.
foreign_keys == TRUE

\* What a repository call leaves and does: the database after it, whether
\* it raised, and what it returned.
Outcome(d, raised, value) == [db |-> d, raised |-> raised, value |-> value]

\* add_habit(habit): the UNIQUE constraint on name fails as
\* sqlite3.IntegrityError, re-raised as ValueError, and the insert is rolled
\* back; else the row gets the next id, which is returned.
add_habit(d, name, p) ==
    IF \E h \in d.habits : h.name = name
    THEN Outcome(d, TRUE, None)
    ELSE LET id == d.sqlite_sequence.habits + 1
         IN  Outcome([d EXCEPT
                        !.habits = @ \cup
                            {[id |-> id, name |-> name, periodicity |-> p]},
                        !.sqlite_sequence.habits = id],
                     FALSE, id)

\* delete_habit(habit_id): DELETE FROM habits WHERE id = ?; with foreign
\* keys on, ON DELETE CASCADE deletes the rows that reference a deleted one.
delete_habit(d, habit_id) ==
    LET deleted == {h \in d.habits : h.id = habit_id}
    IN  Outcome([d EXCEPT
                    !.habits = @ \ deleted,
                    !.habit_completions =
                        IF foreign_keys
                        THEN {c \in @ :
                                \A h \in deleted : c.habit_id # h.id}
                        ELSE @],
                FALSE, None)

\* add_habit_completion(habit_id, completed_at): with foreign keys on, a
\* habit_id that no row of habits has fails the FOREIGN KEY constraint:
\* sqlite3.IntegrityError leaves the method and the insert is rolled back;
\* else the row gets the next id, which is returned.
add_habit_completion(d, habit_id, completed_at) ==
    IF foreign_keys /\ ~ \E h \in d.habits : h.id = habit_id
    THEN Outcome(d, TRUE, None)
    ELSE LET id == d.sqlite_sequence.habit_completions + 1
         IN  Outcome([d EXCEPT
                        !.habit_completions = @ \cup
                            {[id |-> id, habit_id |-> habit_id,
                              completed_at |-> completed_at]},
                        !.sqlite_sequence.habit_completions = id],
                     FALSE, id)

\* No repository call yet.
NoCall ==
    [op |-> "none", habit_id |-> None, raised |-> FALSE, before |-> EmptyDb]

----------------------------------------------------------------------------
(* The evaluator called on one habit's completions: the list of            *)
(* HabitRepository.list_habit_completions (newest first), the habit's      *)
(* periodicity and the clock are drawn at the start; the two entry points  *)
(* are then called on them.                                                *)

MaxCompletions == 4

NumDays == 9

\* 2024-12-29, the Sunday of ISO week 2024-W52; the days that follow run
\* through ISO week 2025-W01 (which starts on 2024-12-30) into 2025-W02.
FirstDay == ymd2ord(2024, 12, 29)

Days == FirstDay .. (FirstDay + NumDays - 1)

\* Lists of at most n dates of D, newest first (ORDER BY completed_at DESC).
DescLists(D, n) ==
    {s \in UNION {[1..k -> D] : k \in 0..n} :
        \A i \in 1..(Len(s) - 1) : s[i] >= s[i + 1]}

\* The completion lists of habit h over the dates of D.
CompletionLists(h, D, n) ==
    {[i \in 1..Len(s) |-> HabitCompletion(h, s[i])] : s \in DescLists(D, n)}

Init ==
    /\ completions \in CompletionLists(1, Days, MaxCompletions)
    /\ periodicity \in Periodicity \cup {OtherPeriodicity}
    /\ now \in Days
    /\ pc = "start"
    /\ streak = 0
    /\ details = <<0, None, None>>
    /\ errors = {}
    /\ habits = <<>>
    /\ habit = None
    /\ overall = 0
    /\ db = EmptyDb
    /\ call = NoCall

CalculateStreak ==
    /\ pc = "start"
    /\ LET r == calculate_streak(completions, periodicity, now)
       IN  IF r.raised
           THEN errors' = errors \cup {"calculate_streak"} /\ UNCHANGED streak
           ELSE streak' = r.value /\ UNCHANGED errors
    /\ pc' = "streak"
    /\ UNCHANGED <<completions, periodicity, now, details, habits, habit,
                   overall, db, call>>

GetStreakDetails ==
    /\ pc = "streak"
    /\ details' = get_streak_details(completions, periodicity)
    /\ pc' = "done"
    /\ UNCHANGED <<completions, periodicity, now, streak, errors, habits,
                   habit, overall, db, call>>

Next == CalculateStreak \/ GetStreakDetails

Spec == Init /\ [][Next]_vars

----------------------------------------------------------------------------
(* Periods, as the specification speaks of them.  A period key is read as  *)
(* the number of its period on the calendar, so that the predecessor of    *)
(* period k is k - 1: the day's ordinal, the number of Monday-started      *)
(* weeks since Monday 0001-01-01, or year * 12 + month.                    *)

PeriodIndex(d, p) ==
    IF p = "DAILY" THEN d
    ELSE IF p = "WEEKLY" THEN (d - 1) \div 7
    ELSE year_of(d) * 12 + month_of(d)

\* The deduplicated period keys of a completion list.
PeriodKeys(cs, p) == {PeriodIndex(c.completed_at, p) : c \in Range(cs)}

\* The number of periods in the unbroken run of completed periods that ends
\* at period e: 0 when e itself is not completed.
RunEndingAt(K, e) ==
    CHOOSE n \in 0..Cardinality(K) :
        /\ \A i \in 0..(n - 1) : (e - i) \in K
        /\ (e - n) \notin K

\* The ongoing streak as the specification states it.
OngoingStreak(cs, p, today) ==
    LET K   == PeriodKeys(cs, p)
        cur == PeriodIndex(today, p)
    IN  IF cs = <<>> THEN 0
        ELSE IF cur \in K THEN RunEndingAt(K, cur)
        ELSE IF (cur - 1) \in K THEN RunEndingAt(K, cur - 1)
        ELSE 0

\* calculate_streak has returned (or raised) for the state's inputs, and
\* the periodicity is one of the enumeration.
Streaked == pc # "start" /\ periodicity \in Periodicity

\* C1: for every periodicity of the enumeration, every completion list and
\* every now, calculate_streak returns 0 for an empty list and otherwise
\* the length of the unbroken backward run of completed periods that ends
\* at the current period if it is completed, else at its predecessor if
\* that is completed, else 0.
C1_OngoingStreakExact ==
    Streaked =>
        /\ "calculate_streak" \notin errors
        /\ streak = OngoingStreak(completions, periodicity, now)

\* C1 witness: a weekly streak of two weeks counted from the week before
\* now's, across the ISO year boundary, the current week not completed.
C1_Witness ==
    /\ Streaked
    /\ periodicity = "WEEKLY"
    /\ isocalendar(now) \notin completed_weeks(completions)
    /\ isocalendar(now) = <<2025, 2>>
    /\ <<2024, 52>> \in completed_weeks(completions)
    /\ streak = 2

\* The longest run of consecutive periods among the period keys K.
LongestRun(K) ==
    IF K = {} THEN 0
    ELSE CHOOSE n \in 1..Cardinality(K) :
            /\ \E e \in K : RunEndingAt(K, e) = n
            /\ \A e \in K : RunEndingAt(K, e) <= n

\* Both entry points have been called for the state's inputs, and the
\* periodicity is one of the enumeration.
Evaluated == pc = "done" /\ periodicity \in Periodicity

\* C2: get_streak_details returns (0, none, none) for an empty list and
\* otherwise the number of periods of the longest run of consecutive period
\* keys of the deduplicated key set, with start and end lying in the first
\* and the last period of a run of that length.
C2_LongestStreakExact ==
    Evaluated =>
        IF completions = <<>> THEN details = <<0, None, None>>
        ELSE
            LET K == PeriodKeys(completions, periodicity)
            IN  /\ details[1] = LongestRun(K)
                /\ details[2] # None /\ details[3] # None
                /\ RunEndingAt(K, PeriodIndex(details[3], periodicity))
                        = details[1]
                /\ PeriodIndex(details[2], periodicity)
                        = PeriodIndex(details[3], periodicity) - details[1] + 1

\* The list of the repository after one more completion of habit h on day d
\* is recorded: newest first.
WithCompletion(cs, h, d) ==
    LET k == Cardinality({i \in 1..Len(cs) : cs[i].completed_at > d})
    IN  SubSeq(cs, 1, k) \o <<HabitCompletion(h, d)>>
            \o SubSeq(cs, k + 1, Len(cs))

\* The days a further completion is drawn from: the window, and the month
\* before it.
AddDays == ymd2ord(2024, 11, 30) .. (FirstDay + NumDays - 1)

\* C3: adding a completion whose period key is already present changes
\* neither the result of calculate_streak nor the length returned by
\* get_streak_details.
C3_DuplicatePeriodChangesNothing ==
    Evaluated =>
        \A d \in AddDays :
            PeriodIndex(d, periodicity) \in PeriodKeys(completions, periodicity)
            =>
            LET more == WithCompletion(completions, 1, d)
            IN  /\ calculate_streak(more, periodicity, now) = Returned(streak)
                /\ get_streak_details(more, periodicity)[1] = details[1]

\* C4: the ongoing streak never exceeds the length of the longest streak of
\* the same completions and periodicity.
C4_OngoingAtMostLongest == Evaluated => streak <= details[1]

\* C5 (grace period): when the current period has no completion and the
\* period right before it is the latest completed one, calculate_streak
\* returns the length of the run of completed periods ending at that
\* preceding period, which is at least 1.
C5_GracePeriod ==
    LET K   == PeriodKeys(completions, periodicity)
        cur == PeriodIndex(now, periodicity)
    IN  (/\ Streaked
         /\ cur \notin K
         /\ (cur - 1) \in K
         /\ \A k \in K : k <= cur - 1)
        => /\ streak = RunEndingAt(K, cur - 1)
           /\ streak >= 1

\* C5 witness: three days in a row up to yesterday, nothing today.
C5_Witness ==
    /\ Streaked
    /\ periodicity = "DAILY"
    /\ now \notin completed_dates(completions)
    /\ \A c \in Range(completions) : c.completed_at < now
    /\ streak = 3

\* C6: a periodicity outside the enumeration makes both calculate_streak
\* and get_streak_details fail with the invalid-periodicity error, whatever
\* the completion list.
C6_InvalidPeriodicityRaises ==
    (pc = "done" /\ periodicity \notin Periodicity)
        => {"calculate_streak", "get_streak_details"} \subseteq errors

\* The period right before the earliest period of the ongoing streak's run,
\* the streak being non-zero: the run ends at the current period or at its
\* predecessor and is streak periods long.
BeforeOngoingRun ==
    LET K   == PeriodKeys(completions, periodicity)
        cur == PeriodIndex(now, periodicity)
    IN  (IF cur \in K THEN cur ELSE cur - 1) - streak

\* calculate_streak after one more completion on day d is recorded.
StreakWith(d) ==
    calculate_streak(WithCompletion(completions, 1, d), periodicity, now)

\* C8 as stated: when the ongoing streak is non-zero and the period right
\* before its run has no completion, one completion added in that period
\* increases calculate_streak by exactly 1, whatever other completions
\* exist.
C8_ExtensionAddsExactlyOne ==
    (Streaked /\ streak > 0) =>
        LET K      == PeriodKeys(completions, periodicity)
            before == BeforeOngoingRun
        IN  before \notin K =>
                \A d \in AddDays :
                    PeriodIndex(d, periodicity) = before
                    => StreakWith(d) = Returned(streak + 1)

\* C8 amended: the added completion joins the ongoing run to the run of
\* completed periods that ends right before the added period, so the result
\* grows by 1 plus the length of that earlier run: by exactly 1 when the
\* period before the added one has no completion, and by more otherwise.
C8_ExtensionJoinsEarlierRun ==
    (Streaked /\ streak > 0) =>
        LET K      == PeriodKeys(completions, periodicity)
            before == BeforeOngoingRun
            longer == streak + 1 + RunEndingAt(K, before - 1)
        IN  before \notin K =>
                \A d \in AddDays :
                    PeriodIndex(d, periodicity) = before
                    => StreakWith(d) = Returned(longer)

\* C8 witness: a weekly streak of one week, the week before it empty and
\* the week before that completed: a completion added in the empty week
\* makes the streak three weeks long.
C8_Witness ==
    /\ Streaked
    /\ periodicity = "WEEKLY"
    /\ streak = 1
    /\ BeforeOngoingRun \notin PeriodKeys(completions, periodicity)
    /\ (BeforeOngoingRun - 1) \in PeriodKeys(completions, periodicity)
    /\ \E d \in AddDays :
        /\ PeriodIndex(d, periodicity) = BeforeOngoingRun
        /\ StreakWith(d) = Returned(3)

----------------------------------------------------------------------------
(* The evaluator called on two completions a before b, with now on the day *)
(* of b, over fourteen months that hold a leap day, the 53-week ISO year   *)
(* 2020 and the ISO year boundaries 2019/2020 and 2020/2021.               *)

NumPairDays == 414

\* The farthest apart the two completions are drawn; two dates of
\* consecutive months are at most 61 days apart.
MaxGap == 62

PairFirstDay == ymd2ord(2019, 12, 15)

PairDays == PairFirstDay .. (PairFirstDay + NumPairDays - 1)

InitPairs ==
    /\ \E a \in PairDays, b \in PairDays :
        /\ a < b
        /\ b - a <= MaxGap
        /\ completions = <<HabitCompletion(1, b), HabitCompletion(1, a)>>
        /\ now = b
    /\ periodicity \in Periodicity
    /\ pc = "start"
    /\ streak = 0
    /\ details = <<0, None, None>>
    /\ errors = {}
    /\ habits = <<>>
    /\ habit = None
    /\ overall = 0
    /\ db = EmptyDb
    /\ call = NoCall

SpecPairs == InitPairs /\ [][Next]_vars

\* The earlier and the later of the two completion dates.
Earlier == completions[2].completed_at

Later == completions[1].completed_at

\* C9: for two completion dates a before b in different periods, the
\* consecutiveness test of the longest-streak scan holds exactly when the
\* period of a is the one the ongoing-streak walk steps to from b; so, with
\* now in b's period, the scan finds a streak of 2 exactly when the walk
\* counts 2.
C9_ConsecutiveIffPredecessor ==
    (/\ pc = "done"
     /\ Len(completions) = 2
     /\ Earlier < Later
     /\ period_of(Earlier, periodicity) # period_of(Later, periodicity))
    => /\ is_consecutive(Earlier, Later, periodicity)
            <=> (period_of(Earlier, periodicity)
                    = predecessor(Later, periodicity))
       /\ (details[1] = 2) <=> is_consecutive(Earlier, Later, periodicity)
       /\ (streak = 2) <=> (period_of(Earlier, periodicity)
                                = predecessor(Later, periodicity))

\* C9 witness: the last week of the 53-week ISO year 2020 and the first
\* week of ISO year 2021, the later date still in calendar year 2021's
\* first days: consecutive for the scan and for the walk.
C9_Witness ==
    /\ pc = "done"
    /\ periodicity = "WEEKLY"
    /\ Len(completions) = 2
    /\ isocalendar(Earlier) = <<2020, 53>>
    /\ year_of(Earlier) = 2021
    /\ isocalendar(Later) = <<2021, 1>>
    /\ details[1] = 2
    /\ streak = 2

----------------------------------------------------------------------------
(* The wrappers called on a list of habits and the completions of all      *)
(* habits (HabitRepository.list_all_habit_completions, newest first).      *)

MaxAllCompletions == 3

NumHabitDays == 4

\* The ids of the habits: the rowids the repository hands out.
HabitIds == {1, 2}

HabitDays == FirstDay .. (FirstDay + NumHabitDays - 1)

\* The lists of habits with distinct ids.
HabitLists ==
    {s \in UNION {[1..k -> {Habit(i, p) : i \in HabitIds, p \in Periodicity}] :
                    k \in 0..Cardinality(HabitIds)} :
        \A i, j \in 1..Len(s) : i < j => s[i].id < s[j].id}

\* Lists of at most n completions of the habits H on the days D, newest
\* first.
AllCompletionLists(H, D, n) ==
    {s \in UNION {[1..k -> {HabitCompletion(h, d) : h \in H, d \in D}] :
                    k \in 0..n} :
        \A i \in 1..(Len(s) - 1) :
            \/ s[i].completed_at > s[i + 1].completed_at
            \/ /\ s[i].completed_at = s[i + 1].completed_at
               /\ s[i].habit_id <= s[i + 1].habit_id}

InitHabits ==
    /\ habits \in HabitLists
    /\ completions \in AllCompletionLists(HabitIds, HabitDays, MaxAllCompletions)
    /\ now \in HabitDays
    /\ periodicity = "DAILY"
    /\ pc = "start"
    /\ streak = 0
    /\ details = <<0, None, None>>
    /\ errors = {}
    /\ habit = None
    /\ overall = 0
    /\ db = EmptyDb
    /\ call = NoCall

\* longest_ongoing_streak_for_habit called with one of the habits and the
\* completion list as it is.
StreakForHabit ==
    /\ pc = "start"
    /\ \E i \in 1..Len(habits) :
        /\ habit' = habits[i]
        /\ LET r == longest_ongoing_streak_for_habit(habits[i], completions, now)
           IN  IF r.raised
               THEN /\ errors' = errors \cup {"longest_ongoing_streak_for_habit"}
                    /\ UNCHANGED streak
               ELSE streak' = r.value /\ UNCHANGED errors
    /\ pc' = "streak"
    /\ UNCHANGED <<completions, periodicity, now, details, habits, overall,
                   db, call>>

StreakOverall ==
    /\ pc = "streak" \/ (pc = "start" /\ habits = <<>>)
    /\ LET r == longest_ongoing_streak_overall(habits, completions, now)
       IN  IF r.raised
           THEN /\ errors' = errors \cup {"longest_ongoing_streak_overall"}
                /\ UNCHANGED overall
           ELSE overall' = r.value /\ UNCHANGED errors
    /\ pc' = "done"
    /\ UNCHANGED <<completions, periodicity, now, streak, details, habits,
                   habit, db, call>>

NextHabits == StreakForHabit \/ StreakOverall

SpecHabits == InitHabits /\ [][NextHabits]_vars

\* The completions of a list that belong to the habits of a list.
OfHabits(cs, hs) ==
    SelectSeq(cs, LAMBDA c : \E i \in 1..Len(hs) : hs[i].id = c.habit_id)

\* C7: the wrappers filter by habit id: the result of
\* longest_ongoing_streak_for_habit is that of the habit's own completions
\* alone, and the result of longest_ongoing_streak_overall is that of the
\* completions of the listed habits alone.
C7_WrappersFilterByHabit ==
    (pc = "done" /\ errors = {}) =>
        /\ habits # <<>> =>
            Returned(streak) =
                longest_ongoing_streak_for_habit(
                    habit, habit_completions(completions, habit), now)
        /\ Returned(overall) =
                longest_ongoing_streak_overall(
                    habits, OfHabits(completions, habits), now)

----------------------------------------------------------------------------
(* The evaluator called on longer histories: up to seven completions, each *)
(* on the Monday or the Tuesday of one of seven consecutive weeks.         *)

MaxLongCompletions == 7

NumLongWeeks == 7

\* Monday 2024-12-16, the first day of ISO week 2024-W51.
LongFirstDay == ymd2ord(2024, 12, 16)

LongDays ==
    {LongFirstDay + 7 * w + o : w \in 0..(NumLongWeeks - 1), o \in {0, 1}}

\* The dates of a set, newest first.
RECURSIVE Descending(_)
Descending(S) ==
    IF S = {} THEN <<>>
    ELSE LET m == CHOOSE x \in S : \A y \in S : x >= y
         IN  <<m>> \o Descending(S \ {m})

InitLong ==
    /\ \E S \in SUBSET LongDays :
        /\ Cardinality(S) <= MaxLongCompletions
        /\ completions =
            [i \in 1..Cardinality(S) |-> HabitCompletion(1, Descending(S)[i])]
    /\ periodicity \in Periodicity
    /\ now = LongFirstDay + 7 * NumLongWeeks
    /\ pc = "start"
    /\ streak = 0
    /\ details = <<0, None, None>>
    /\ errors = {}
    /\ habits = <<>>
    /\ habit = None
    /\ overall = 0
    /\ db = EmptyDb
    /\ call = NoCall

SpecLong == InitLong /\ [][Next]_vars

\* The last periods of the runs of consecutive period keys of K that have
\* the greatest length.
LongestRunEnds(K) == {e \in K : RunEndingAt(K, e) = LongestRun(K)}

\* C10: when several maximal runs of consecutive periods share the greatest
\* length, the start and the end get_streak_details returns are those of
\* the chronologically earliest of them.
C10_TieKeepsEarliestRun ==
    LET K    == PeriodKeys(completions, periodicity)
        ends == LongestRunEnds(K)
        e    == CHOOSE x \in ends : \A y \in ends : x <= y
    IN  (Evaluated /\ Cardinality(ends) >= 2) =>
            /\ PeriodIndex(details[3], periodicity) = e
            /\ PeriodIndex(details[2], periodicity) = e - LongestRun(K) + 1

----------------------------------------------------------------------------
(* The wrappers, continued. *)

\* The ongoing streak, as the specification states it, of the i-th habit of
\* the list: from the completions that carry its id, under its periodicity.
OngoingStreakOfHabit(i) ==
    OngoingStreak(
        SelectSeq(completions, LAMBDA c : c.habit_id = habits[i].id),
        habits[i].periodicity, now)

\* C11: longest_ongoing_streak_overall returns 0 for an empty habit list
\* and otherwise the greatest, over the habits of the list, of the ongoing
\* streak of the habit computed from the completions with the habit's id
\* alone, under the habit's own periodicity.
C11_OverallIsMaxOverHabits ==
    pc = "done" =>
        /\ "longest_ongoing_streak_overall" \notin errors
        /\ habits = <<>> => overall = 0
        /\ habits # <<>> =>
            /\ \E i \in 1..Len(habits) : overall = OngoingStreakOfHabit(i)
            /\ \A i \in 1..Len(habits) : overall >= OngoingStreakOfHabit(i)

\* C11 witness: two habits of different periodicities, each with
\* completions of its own, the second habit's streak the greater one and
\* returned.
C11_Witness ==
    /\ pc = "done"
    /\ Len(habits) = 2
    /\ habits[1].periodicity # habits[2].periodicity
    /\ \A i \in 1..2 : \E c \in Range(completions) : c.habit_id = habits[i].id
    /\ OngoingStreakOfHabit(1) = 1
    /\ OngoingStreakOfHabit(2) = 2
    /\ overall = 2

----------------------------------------------------------------------------
(* The evaluator on one habit's completions, continued. *)

\* The list without its i-th completion.
WithoutCompletion(cs, i) == SubSeq(cs, 1, i - 1) \o SubSeq(cs, i + 1, Len(cs))

\* C12: calculate_streak never looks forward from now and tolerates exactly
\* one grace period: a completion added in, or removed from, a period
\* strictly after now's never changes its result (nor does removing all of
\* them), and when neither the current period nor its predecessor is
\* completed the result is 0, whatever runs lie earlier or later.
C12_NoLookForwardOneGrace ==
    (pc = "streak" /\ periodicity \in Periodicity) =>
        LET K     == PeriodKeys(completions, periodicity)
            cur   == PeriodIndex(now, periodicity)
            later == {i \in 1..Len(completions) :
                        PeriodIndex(completions[i].completed_at, periodicity)
                            > cur}
            upto  == SelectSeq(completions,
                        LAMBDA c : PeriodIndex(c.completed_at, periodicity)
                                        <= cur)
        IN  /\ \A d \in Days :
                PeriodIndex(d, periodicity) > cur
                    => StreakWith(d) = Returned(streak)
            /\ \A i \in later :
                calculate_streak(WithoutCompletion(completions, i),
                                 periodicity, now) = Returned(streak)
            /\ calculate_streak(upto, periodicity, now) = Returned(streak)
            /\ (cur \notin K /\ (cur - 1) \notin K) => streak = 0

\* C12 witness: nothing today nor yesterday, a completion two days ago and
\* completions on the two days after today: the result is 0.
C12_Witness ==
    /\ pc = "streak"
    /\ periodicity = "DAILY"
    /\ completed_dates(completions) = {now - 2, now + 1, now + 2}
    /\ streak = 0

\* C13: for a valid periodicity and a non-empty list, get_streak_details
\* returns a length of at least 1, a start and an end that are dates of
\* completions of the list with start <= end, the period of end lying exactly
\* length - 1 period steps after the period of start, and every period from
\* the one to the other completed.
C13_DetailsBoundsConsistent ==
    (Evaluated /\ completions # <<>>) =>
        LET length == details[1]
            start  == details[2]
            end    == details[3]
            K      == PeriodKeys(completions, periodicity)
        IN  /\ length >= 1
            /\ start \in completed_dates(completions)
            /\ end \in completed_dates(completions)
            /\ start <= end
            /\ PeriodIndex(end, periodicity)
                    = PeriodIndex(start, periodicity) + length - 1
            /\ \A k \in PeriodIndex(start, periodicity)
                            ..PeriodIndex(end, periodicity) : k \in K

\* C13 witness: a weekly run of two weeks that crosses the year, after an
\* earlier completion in the first of the two weeks.
C13_Witness ==
    /\ Evaluated
    /\ periodicity = "WEEKLY"
    /\ \E d \in completed_dates(completions) :
            d < details[2] /\ isocalendar(d) = <<2025, 1>>
    /\ details[1] = 2
    /\ isocalendar(details[2]) = <<2025, 1>>
    /\ isocalendar(details[3]) = <<2025, 2>>
    /\ details[2] < details[3]

----------------------------------------------------------------------------
(* The repository: after create_tables on a new file, add_habit,           *)
(* add_habit_completion and delete_habit are called in any order, with     *)
(* any name and any habit id, stored or not.                               *)

\* AUTOINCREMENT never hands an id out twice, so the ids grow without end:
\* the calls stop when these many have been handed out.
MaxHabitRows == 2

MaxCompletionRows == 3

Names == {"run", "read"}

\* The habit ids a call can be made with: every id ever handed out and one
\* that never is.
CallIds == 1..(MaxHabitRows + 1)

RepoDays == {FirstDay, FirstDay + 1}

InitRepo ==
    /\ completions = <<>>
    /\ periodicity = "DAILY"
    /\ now = FirstDay
    /\ pc = "start"
    /\ streak = 0
    /\ details = <<0, None, None>>
    /\ errors = {}
    /\ habits = <<>>
    /\ habit = None
    /\ overall = 0
    /\ db = EmptyDb
    /\ call = NoCall

evaluator == <<completions, periodicity, now, pc, streak, details, errors,
               habits, habit, overall>>

AddHabit ==
    /\ db.sqlite_sequence.habits < MaxHabitRows
    /\ \E name \in Names, p \in Periodicity :
        LET r == add_habit(db, name, p)
        IN  /\ db' = r.db
            /\ call' = [op |-> "add_habit", habit_id |-> r.value,
                        raised |-> r.raised, before |-> db]
    /\ UNCHANGED evaluator

AddHabitCompletion ==
    /\ db.sqlite_sequence.habit_completions < MaxCompletionRows
    /\ \E habit_id \in CallIds, completed_at \in RepoDays :
        LET r == add_habit_completion(db, habit_id, completed_at)
        IN  /\ db' = r.db
            /\ call' = [op |-> "add_habit_completion", habit_id |-> habit_id,
                        raised |-> r.raised, before |-> db]
    /\ UNCHANGED evaluator

DeleteHabit ==
    /\ \E habit_id \in CallIds :
        LET r == delete_habit(db, habit_id)
        IN  /\ db' = r.db
            /\ call' = [op |-> "delete_habit", habit_id |-> habit_id,
                        raised |-> r.raised, before |-> db]
    /\ UNCHANGED evaluator

NextRepo == AddHabit \/ AddHabitCompletion \/ DeleteHabit

SpecRepo == InitRepo /\ [][NextRepo]_vars

\* The ids of the stored habits.
StoredIds(d) == {h.id : h \in d.habits}

\* C14: after any sequence of add_habit, add_habit_completion and
\* delete_habit calls every stored completion's habit_id is the id of a
\* stored habit; after delete_habit(h) neither the habit h nor any completion
\* of h is stored; and add_habit_completion for an id that is not stored
\* leaves the stored completions as they were.
C14_ReferentialIntegrity ==
    /\ \A c \in db.habit_completions : c.habit_id \in StoredIds(db)
    /\ call.op = "delete_habit" =>
        /\ call.habit_id \notin StoredIds(db)
        /\ \A c \in db.habit_completions : c.habit_id # call.habit_id
    /\ (call.op = "add_habit_completion"
            /\ call.habit_id \notin StoredIds(call.before)) =>
        db.habit_completions = call.before.habit_completions

\* C14 witness: delete_habit has just deleted a habit that had two
\* completions, while another habit keeps its own.
C14_Witness ==
    /\ call.op = "delete_habit"
    /\ call.habit_id \in StoredIds(call.before)
    /\ \E c1, c2 \in call.before.habit_completions :
        /\ c1 # c2
        /\ c1.habit_id = call.habit_id
        /\ c2.habit_id = call.habit_id
    /\ db.habit_completions # {}

====
